---- MODULE Spec2Model ----
(***************************************************************************)
(* A model of the raytracer scaffolding: the image buffer, its PPM text    *)
(* encoding and the run of main (src/src/main.rs), and the Vec3 arithmetic *)
(* (src/src/vec3.rs).                                                      *)
(***************************************************************************)
EXTENDS Integers, Sequences, FiniteSets, TLC

VARIABLES
    pc,         \* position of the run
    entry,      \* the entry point taken: "main", "to_draw", "test", "new"
    arg1,       \* first positional argument of the call (to_draw: width)
    arg2,       \* second positional argument of the call (to_draw: height)
    pix_init,   \* the initializer passed to new_assign: "gradient", "test", "none"
    height,     \* new_assign / new: parameter `height`
    width,      \* new_assign / new: parameter `width`
    row,        \* new_assign: index of the outer iterator (0..height)
    col,        \* new_assign: index of the inner iterator (0..width)
    rowBuf,     \* new_assign: the row being collected
    pixels,     \* new_assign: the rows collected so far
    calls,      \* every invocation of the initializer, as <<first, second>> arguments
    underflow,  \* TRUE once `width - 1` or `height - 1` was evaluated on 0
    img,        \* the constructed Image: [pixels, height, width]
    out,        \* the characters formatted by Display (Ppm<Image>)
    steps,      \* main: the steps performed, as <<name, result>>
    fileExists, \* main: out.ppm exists on disk
    fileLen,    \* main: number of characters of the encoding that reached the file
    px,         \* the pixel handed to Display (Ppm<Pixel>)
    text,       \* the characters formatted by Display (Ppm<Pixel>)
    a,          \* Vec3 operand
    b,          \* Vec3 operand
    s,          \* f32 scalar operand
    c,          \* Vec3 variable, target of the compound assignments
    res,        \* result of the last Vec3 operation
    res2,       \* result of the same operation with the operands exchanged
    vop,        \* the last operator: "add", "sub", "mul", "div", "cross"
    form        \* the operand form used for it

vars == <<pc, entry, arg1, arg2, pix_init, height, width, row, col, rowBuf,
          pixels, calls, underflow, img, out, steps, fileExists, fileLen,
          px, text, a, b, s, c, res, res2, vop, form>>

imgVars == <<entry, arg1, arg2, pix_init, height, width, row, col, rowBuf,
             pixels, calls, underflow, img, out, steps, fileExists, fileLen>>
pixVars == <<px, text>>
vecVars == <<a, b, s, c, res, res2, vop, form>>

(***************************************************************************)
(* Bounds of the model.                                                    *)
(***************************************************************************)
\* Largest width / height a caller passes.
MaxDim == 3
\* main.rs:10 passes the literal 256 twice; the run of main is explored on a
\* square image of this side instead.
MainSide == 2

(***************************************************************************)
(* Program constants.                                                      *)
(***************************************************************************)
\* u8: the channel type of Pixel.
U8Max == 255
\* let factor: f32 = 259.999, in thousandths.
FactorMilli == 259999
\* "{:>3}": the minimum field width of a channel.
FieldWidth == 3

Min(x, y) == IF x <= y THEN x ELSE y

(***************************************************************************)
(* Pixel and the two initializers of the source.                           *)
(***************************************************************************)
Pixel(r, g, bl) == [r |-> r, g |-> g, b |-> bl]

\* #[derive(Default)]
PixelDefault == Pixel(0, 0, 0)

\* `x as u8` for the f32 x = num/den >= 0: NaN (0/0) gives 0, the fraction is
\* dropped and the value saturates at u8::MAX.
CastF32ToU8Wrapping(num, den) ==
    IF den = 0 THEN 0 ELSE (num \div den) % (U8Max + 1)
CastF32ToU8(num, den) ==
    IF den = 0
    THEN (IF num = 0 THEN 0 ELSE U8Max)
    ELSE Min(U8Max, num \div den)

\* (factor * ((idx as f32) / ((dim - 1) as f32))) as u8.  With dim = 0 the
\* subtraction underflows: a release build wraps to usize::MAX and the
\* quotient is below 1/256, so the channel is 0 (a debug build panics, see
\* NewAssignCell).
GradientChannel(idx, dim) ==
    IF dim = 0 THEN 0
    ELSE CastF32ToU8(FactorMilli * idx, 1000 * (dim - 1))

\* The closure of to_draw, which captures to_draw's width and height.
GradientInit(i, j, w, h) == Pixel(GradientChannel(i, w), GradientChannel(j, h), 0)

\* The closure of test_image_init: usize as u8 keeps the low 8 bits.
TestInit(i, j) == Pixel(i % (U8Max + 1), j % (U8Max + 1), i % (U8Max + 1))

\* pix_init(first, second) for the initializer named f.
PixInit(f, first, second, w, h) ==
    IF f = "gradient" THEN GradientInit(first, second, w, h) ELSE TestInit(first, second)

\* The closure of to_draw evaluates width - 1 and height - 1 on usize.
Underflows(f, w, h) == f = "gradient" /\ (w = 0 \/ h = 0)

(***************************************************************************)
(* Image::new and Image::new_assign.                                       *)
(***************************************************************************)
\* (0..height), the outer iterator.
RowRangeInclusive(h) == 0..h
RowRange(h) == 0..(h - 1)

\* (0..width), the inner iterator.
ColRange(w) == 0..(w - 1)

\* The arguments pix_init is invoked with for the cell (row, col).
InitArgsSwapped(r, cl) == <<cl, r>>
InitArgs(r, cl) == <<r, cl>>

\* Image::new(height, width): every cell is Pixel::default().
NewPixels(h, w) == [r \in 1..h |-> [cl \in 1..w |-> PixelDefault]]

Image(p, h, w) == [pixels |-> p, height |-> h, width |-> w]

NoImage == Image(<<>>, 0, 0)

(***************************************************************************)
(* Display: the text form of a pixel and of an image.                      *)
(***************************************************************************)
DigitChars == <<"0", "1", "2", "3", "4", "5", "6", "7", "8", "9">>

RECURSIVE Decimal(_)
\* "{}" of an unsigned integer.
Decimal(n) ==
    IF n < 10 THEN <<DigitChars[n + 1]>>
    ELSE Append(Decimal(n \div 10), DigitChars[(n % 10) + 1])

Spaces(n) == [i \in 1..n |-> " "]

\* "{:>w}": right-aligned in a field of at least w characters.
PadRight(str, w) == IF Len(str) >= w THEN str ELSE str \o Spaces(w - Len(str))
PadLeft(str, w) == IF Len(str) >= w THEN str ELSE Spaces(w - Len(str)) \o str

\* write!(formatter, "{:>3} {:>3} {:>3}", r, g, b)
PixelText(p) ==
    PadLeft(Decimal(p.r), FieldWidth) \o <<" ">> \o
    PadLeft(Decimal(p.g), FieldWidth) \o <<" ">> \o
    PadLeft(Decimal(p.b), FieldWidth)

\* writeln!
Writeln(str) == str \o <<"\n">>

RECURSIVE RowText(_)
\* for pixel in row { writeln!(formatter, "{}", Ppm(pixel)) }
RowText(r) ==
    IF r = <<>> THEN <<>>
    ELSE Writeln(PixelText(Head(r))) \o RowText(Tail(r))

RECURSIVE RowsText(_)
\* for row in &self.0.pixels { ... }
RowsText(rows) ==
    IF rows = <<>> THEN <<>>
    ELSE RowText(Head(rows)) \o RowsText(Tail(rows))

\* The second header line: "{} {}", width, height.
DimsLineSwapped(i) == Decimal(i.height) \o <<" ">> \o Decimal(i.width)
DimsLine(i) == Decimal(i.width) \o <<" ">> \o Decimal(i.height)

\* impl Display for Ppm<'_, Image>
EncodeImage(i) ==
    Writeln(<<"P", "3">>) \o Writeln(DimsLine(i)) \o Writeln(<<"2", "5", "5">>)
    \o RowsText(i.pixels)

(***************************************************************************)
(* The run: the entry points, new_assign step by step, Display, main.      *)
(***************************************************************************)
Dims == 0..MaxDim

ImgInit ==
    /\ entry = "none" /\ arg1 = 0 /\ arg2 = 0 /\ pix_init = "none"
    /\ height = 0 /\ width = 0 /\ row = 0 /\ col = 0
    /\ rowBuf = <<>> /\ pixels = <<>> /\ calls = <<>> /\ underflow = FALSE
    /\ img = NoImage /\ out = <<>> /\ steps = <<>>
    /\ fileExists = FALSE /\ fileLen = 0

PixIdle == px = PixelDefault /\ text = <<>>

VecIdle ==
    /\ a = <<>> /\ b = <<>> /\ s = <<>> /\ c = <<>>
    /\ res = <<>> /\ res2 = <<>> /\ vop = "none" /\ form = "none"

Init == pc = "start" /\ ImgInit /\ PixIdle /\ VecIdle

\* Image::new_assign(h, w, f) is entered: the iterators start.
BeginNewAssign(h, w) ==
    /\ height' = h /\ width' = w
    /\ row' = 0 /\ col' = 0 /\ rowBuf' = <<>> /\ pixels' = <<>>
    /\ pc' = "na_loop"

\* to_draw(width, height): Image::new_assign(width, height, closure).
ToDraw ==
    /\ pc = "start"
    /\ \E w \in Dims, h \in Dims :
         /\ entry' = "to_draw" /\ arg1' = w /\ arg2' = h
         /\ pix_init' = "gradient"
         /\ BeginNewAssign(w, h)
    /\ UNCHANGED <<calls, underflow, img, out, steps, fileExists, fileLen>>
    /\ UNCHANGED pixVars /\ UNCHANGED vecVars

\* test_image_init: Image::new_assign(2, 2, |i, j| ...), for any two sizes.
TestImageInit ==
    /\ pc = "start"
    /\ \E x \in Dims, y \in Dims :
         /\ entry' = "test" /\ arg1' = x /\ arg2' = y
         /\ pix_init' = "test"
         /\ BeginNewAssign(x, y)
    /\ UNCHANGED <<calls, underflow, img, out, steps, fileExists, fileLen>>
    /\ UNCHANGED pixVars /\ UNCHANGED vecVars

\* Image::new(x, y): the parameters are (height, width).
ImageNew ==
    /\ pc = "start"
    /\ \E x \in Dims, y \in Dims :
         /\ entry' = "new" /\ arg1' = x /\ arg2' = y
         /\ height' = x /\ width' = y
         /\ img' = Image(NewPixels(x, y), x, y)
    /\ pc' = "built"
    /\ UNCHANGED <<pix_init, row, col, rowBuf, pixels, calls, underflow, out,
                   steps, fileExists, fileLen>>
    /\ UNCHANGED pixVars /\ UNCHANGED vecVars

\* The inner map: pix_init(row, col) is invoked and its pixel collected.  In
\* to_draw's closure width - 1 or height - 1 underflows on 0: a debug build
\* panics, a release build wraps.
NewAssignCell ==
    /\ pc = "na_loop"
    /\ row \in RowRange(height)
    /\ col \in ColRange(width)
    /\ LET args == InitArgs(row, col) IN
         /\ calls' = Append(calls, args)
         /\ rowBuf' = Append(rowBuf, PixInit(pix_init, args[1], args[2], arg1, arg2))
    /\ col' = col + 1
    /\ IF Underflows(pix_init, arg1, arg2)
       THEN underflow' = TRUE /\ pc' \in {"na_loop", "panicked"}
       ELSE UNCHANGED underflow /\ pc' = pc
    /\ UNCHANGED <<entry, arg1, arg2, pix_init, height, width, row, pixels, img,
                   out, steps, fileExists, fileLen>>
    /\ UNCHANGED pixVars /\ UNCHANGED vecVars

\* The inner collect(): the row is complete.
NewAssignRow ==
    /\ pc = "na_loop"
    /\ row \in RowRange(height)
    /\ col \notin ColRange(width)
    /\ pixels' = Append(pixels, rowBuf)
    /\ rowBuf' = <<>>
    /\ row' = row + 1
    /\ col' = 0
    /\ UNCHANGED <<pc, entry, arg1, arg2, pix_init, height, width, calls,
                   underflow, img, out, steps, fileExists, fileLen>>
    /\ UNCHANGED pixVars /\ UNCHANGED vecVars

\* The outer collect() and Self { pixels, height, width }.
NewAssignEnd ==
    /\ pc = "na_loop"
    /\ row \notin RowRange(height)
    /\ img' = Image(pixels, height, width)
    /\ pc' = "built"
    /\ IF entry = "main"
       THEN steps' = Append(steps, <<"build", "ok">>)
       ELSE UNCHANGED steps
    /\ UNCHANGED <<entry, arg1, arg2, pix_init, height, width, row, col, rowBuf,
                   pixels, calls, underflow, out, fileExists, fileLen>>
    /\ UNCHANGED pixVars /\ UNCHANGED vecVars

\* format!("{}", Ppm(&img)) outside main.
FmtImage ==
    /\ pc = "built"
    /\ entry # "main"
    /\ out' = EncodeImage(img)
    /\ pc' = "encoded"
    /\ UNCHANGED <<entry, arg1, arg2, pix_init, height, width, row, col, rowBuf,
                   pixels, calls, underflow, img, steps, fileExists, fileLen>>
    /\ UNCHANGED pixVars /\ UNCHANGED vecVars

(***************************************************************************)
(* main.                                                                   *)
(***************************************************************************)
IoResults == {"ok", "err"}

\* The `?` operator: an Err returns from main at once, an Ok goes on.
QuestionMarkIgnoring(result, next) == next
QuestionMark(result, next) == IF result = "err" THEN "exit_err" ELSE next

\* How much of n formatted characters a BufWriter has passed on to the file
\* before it is flushed: nothing, a part or all of it.
Passed(n) == {0, n \div 2, n}

\* BufWriter::new(File::create("out.ppm")?), then to_draw(256, 256).
MainCreate ==
    /\ pc = "start"
    /\ entry' = "main"
    /\ \E r \in IoResults :
         /\ steps' = Append(steps, <<"create", r>>)
         /\ fileExists' = (r = "ok")
         /\ IF QuestionMark(r, "build") = "build"
            THEN /\ arg1' = MainSide /\ arg2' = MainSide
                 /\ pix_init' = "gradient"
                 /\ BeginNewAssign(MainSide, MainSide)
            ELSE /\ pc' = QuestionMark(r, "build")
                 /\ UNCHANGED <<arg1, arg2, pix_init, height, width, row, col,
                                rowBuf, pixels>>
    /\ UNCHANGED <<calls, underflow, img, out, fileLen>>
    /\ UNCHANGED pixVars /\ UNCHANGED vecVars

\* write!(buffer, "{}", Ppm(&img))?
MainWrite ==
    /\ pc = "built"
    /\ entry = "main"
    /\ \E r \in IoResults :
         /\ steps' = Append(steps, <<"write", r>>)
         /\ out' = EncodeImage(img)
         /\ \E n \in Passed(Len(EncodeImage(img))) : fileLen' = n
         /\ pc' = QuestionMark(r, "written")
    /\ UNCHANGED <<entry, arg1, arg2, pix_init, height, width, row, col, rowBuf,
                   pixels, calls, underflow, img, fileExists>>
    /\ UNCHANGED pixVars /\ UNCHANGED vecVars

\* buffer.flush()?; Ok(())
MainFlush ==
    /\ pc = "written"
    /\ \E r \in IoResults :
         /\ steps' = Append(steps, <<"flush", r>>)
         /\ IF r = "ok"
            THEN fileLen' = Len(out)
            ELSE \E n \in Passed(Len(out)) : n >= fileLen /\ fileLen' = n
         /\ pc' = QuestionMark(r, "exit_ok")
    /\ UNCHANGED <<entry, arg1, arg2, pix_init, height, width, row, col, rowBuf,
                   pixels, calls, underflow, img, out, fileExists>>
    /\ UNCHANGED pixVars /\ UNCHANGED vecVars

Next ==
    \/ ToDraw
    \/ TestImageInit
    \/ ImageNew
    \/ NewAssignCell
    \/ NewAssignRow
    \/ NewAssignEnd
    \/ FmtImage
    \/ MainCreate
    \/ MainWrite
    \/ MainFlush

Spec == Init /\ [][Next]_vars

(***************************************************************************)
(* Display of one pixel, on its own.                                       *)
(***************************************************************************)
\* Channel values of the green and blue channel of the pixels formatted; the
\* red channel takes every u8 value.
ChannelSamples == {0, 7, 42, 100, U8Max}

InitPixel ==
    /\ pc = "px_start"
    /\ px \in {Pixel(r, g, bl) : r \in 0..U8Max, g \in ChannelSamples, bl \in ChannelSamples}
    /\ text = <<>>
    /\ ImgInit /\ VecIdle

\* format!("{}", Ppm(&pixel))
FmtPixel ==
    /\ pc = "px_start"
    /\ text' = PixelText(px)
    /\ pc' = "px_done"
    /\ UNCHANGED px /\ UNCHANGED imgVars /\ UNCHANGED vecVars

NextPixel == FmtPixel

SpecPixel == InitPixel /\ [][NextPixel]_vars

(***************************************************************************)
(* f32, in miniature: sign and magnitude, finite magnitudes the multiples  *)
(* of one unit up to MaxFinite units, results rounded to the nearest unit  *)
(* (ties to even) and overflowing to an infinity, two zeros, one NaN.      *)
(***************************************************************************)
\* The largest finite magnitude, in units.
MaxFinite == 8
\* The units that make 1.0.
One == 2

NaN == [k |-> "nan", sg |-> 1, m |-> 0]
Inf(sg) == [k |-> "inf", sg |-> sg, m |-> 0]
Fin(sg, m) == [k |-> "fin", sg |-> sg, m |-> m]

IsNaN(x) == x.k = "nan"
IsInf(x) == x.k = "inf"
IsZero(x) == x.k = "fin" /\ x.m = 0

\* A finite result of magnitude m: overflow gives an infinity.
Rounded(sg, m) == IF m > MaxFinite THEN Inf(sg) ELSE Fin(sg, m)

\* n / d (n >= 0, d > 0) rounded to the nearest integer, ties to even.
RoundDiv(n, d) ==
    LET q == n \div d
        r == n % d
    IN IF 2 * r > d \/ (2 * r = d /\ q % 2 = 1) THEN q + 1 ELSE q

\* -x
FNeg(x) == IF IsNaN(x) THEN x ELSE [x EXCEPT !.sg = -x.sg]

\* x + y
FAdd(x, y) ==
    IF IsNaN(x) \/ IsNaN(y) THEN NaN
    ELSE IF IsInf(x) /\ IsInf(y) THEN (IF x.sg = y.sg THEN x ELSE NaN)
    ELSE IF IsInf(x) THEN x
    ELSE IF IsInf(y) THEN y
    ELSE LET v == x.sg * x.m + y.sg * y.m IN
         IF v = 0 THEN Fin(IF x.sg = -1 /\ y.sg = -1 THEN -1 ELSE 1, 0)
         ELSE IF v > 0 THEN Rounded(1, v)
         ELSE Rounded(-1, -v)

\* x - y
FSub(x, y) == FAdd(x, FNeg(y))

\* x * y
FMul(x, y) ==
    IF IsNaN(x) \/ IsNaN(y) THEN NaN
    ELSE IF (IsInf(x) /\ IsZero(y)) \/ (IsZero(x) /\ IsInf(y)) THEN NaN
    ELSE IF IsInf(x) \/ IsInf(y) THEN Inf(x.sg * y.sg)
    ELSE Rounded(x.sg * y.sg, RoundDiv(x.m * y.m, One))

\* x / y
FDiv(x, y) ==
    IF IsNaN(x) \/ IsNaN(y) THEN NaN
    ELSE IF (IsInf(x) /\ IsInf(y)) \/ (IsZero(x) /\ IsZero(y)) THEN NaN
    ELSE IF IsInf(x) \/ IsZero(y) THEN Inf(x.sg * y.sg)
    ELSE IF IsInf(y) THEN Fin(x.sg * y.sg, 0)
    ELSE Rounded(x.sg * y.sg, RoundDiv(x.m * One, y.m))

\* x == y on f32: NaN equals nothing, the two zeros are equal.
FEq(x, y) ==
    /\ ~IsNaN(x) /\ ~IsNaN(y)
    /\ \/ x = y
       \/ IsZero(x) /\ IsZero(y)

Ops == {"add", "sub", "mul", "div"}

\* The operator $binary_symbol stands for in a macro instance.
FOp(op, x, y) ==
    CASE op = "add" -> FAdd(x, y)
      [] op = "sub" -> FSub(x, y)
      [] op = "mul" -> FMul(x, y)
      [] op = "div" -> FDiv(x, y)

(***************************************************************************)
(* Vec3.                                                                   *)
(***************************************************************************)
Vec3(x, y, z) == [x |-> x, y |-> y, z |-> z]

\* #[derive(PartialEq)]
VecEq(l, r) == FEq(l.x, r.x) /\ FEq(l.y, r.y) /\ FEq(l.z, r.z)

\* impl $Trait<&$VectorType> for &$VectorType: the one every other form forwards to.
RefRef(op, l, r) == Vec3(FOp(op, l.x, r.x), FOp(op, l.y, r.y), FOp(op, l.z, r.z))

\* impl $Trait<$VectorType> for $VectorType: &self op &rhs
ValVal(op, l, r) == RefRef(op, l, r)

\* impl $Trait<&$VectorType> for $VectorType: &self op rhs
ValRef(op, l, r) == RefRef(op, l, r)

\* impl $Trait<$VectorType> for &$VectorType: self op &rhs
RefVal(op, l, r) == RefRef(op, l, r)

\* impl $Trait<f32> for &$VectorType
RefScalar(op, v, k) == Vec3(FOp(op, v.x, k), FOp(op, v.y, k), FOp(op, v.z, k))

\* impl $Trait<f32> for $VectorType: &self op rhs
ValScalar(op, v, k) == RefScalar(op, v, k)

\* impl $Trait<$VectorType> for f32: &rhs op self
ScalarVal(op, k, v) == RefScalar(op, v, k)

\* impl $Trait<&$VectorType> for f32: rhs op self
ScalarRef(op, k, v) == RefScalar(op, v, k)

\* impl $TraitAssign<&$VectorType> for $VectorType: the new value of *self
AssignRef(op, t, r) == Vec3(FOp(op, t.x, r.x), FOp(op, t.y, r.y), FOp(op, t.z, r.z))

\* impl $TraitAssign for $VectorType: *self = *self op &rhs
AssignValExchanged(op, t, r) == ValRef(op, r, t)
AssignVal(op, t, r) == ValRef(op, t, r)

\* impl Neg for &Vec3
NegRef(v) == Vec3(FNeg(v.x), FNeg(v.y), FNeg(v.z))

\* impl Neg for Vec3: - &self
Neg(v) == NegRef(v)

\* Vec3::cross
CrossLeftHanded(l, r) ==
    Vec3(FSub(FMul(l.z, r.y), FMul(l.y, r.z)),
         FSub(FMul(l.x, r.z), FMul(l.z, r.x)),
         FSub(FMul(l.y, r.x), FMul(l.x, r.y)))
Cross(l, r) ==
    Vec3(FSub(FMul(l.y, r.z), FMul(l.z, r.y)),
         FSub(FMul(l.z, r.x), FMul(l.x, r.z)),
         FSub(FMul(l.x, r.y), FMul(l.y, r.x)))

HasNaN(v) == IsNaN(v.x) \/ IsNaN(v.y) \/ IsNaN(v.z)

(***************************************************************************)
(* The operand forms of the four binary operators and of the compound      *)
(* assignments, on every pair of vectors over a few component values.      *)
(***************************************************************************)
\* 0.0, 1.0, the largest negative finite value, +infinity and NaN.
BinaryComponents == {Fin(1, 0), Fin(1, One), Fin(-1, MaxFinite), Inf(1), NaN}

VecsOver(S) == {Vec3(x, y, z) : x \in S, y \in S, z \in S}

BinaryForms == {"val_val", "val_ref", "ref_val", "ref_ref"}
AssignForms == {"assign_val", "assign_ref"}

InitBinary ==
    /\ pc = "v_start"
    /\ a \in VecsOver(BinaryComponents)
    /\ b \in VecsOver(BinaryComponents)
    /\ c = a
    /\ s = <<>> /\ res = <<>> /\ res2 = <<>> /\ vop = "none" /\ form = "none"
    /\ ImgInit /\ PixIdle

\* a op b, a op &b, &a op b, &a op &b
BinaryOp ==
    /\ pc = "v_start"
    /\ \E op \in Ops, f \in BinaryForms :
         /\ res' = CASE f = "val_val" -> ValVal(op, a, b)
                     [] f = "val_ref" -> ValRef(op, a, b)
                     [] f = "ref_val" -> RefVal(op, a, b)
                     [] f = "ref_ref" -> RefRef(op, a, b)
         /\ vop' = op /\ form' = f
    /\ pc' = "v_done"
    /\ UNCHANGED <<a, b, s, c, res2>>
    /\ UNCHANGED imgVars /\ UNCHANGED pixVars

\* c op= b, c op= &b
CompoundAssign ==
    /\ pc = "v_start"
    /\ \E op \in Ops, f \in AssignForms :
         /\ c' = CASE f = "assign_val" -> AssignVal(op, c, b)
                   [] f = "assign_ref" -> AssignRef(op, c, b)
         /\ vop' = op /\ form' = f
    /\ pc' = "v_done"
    /\ UNCHANGED <<a, b, s, res, res2>>
    /\ UNCHANGED imgVars /\ UNCHANGED pixVars

NextBinary == BinaryOp \/ CompoundAssign

SpecBinary == InitBinary /\ [][NextBinary]_vars

(***************************************************************************)
(* The scalar forms.                                                       *)
(***************************************************************************)
\* As BinaryComponents, and the smallest positive value and -0.0.
ScalarValues == BinaryComponents \cup {Fin(1, 1), Fin(-1, 0)}

ScalarForms == {"ref_scalar", "val_scalar", "scalar_val", "scalar_ref"}

InitScalar ==
    /\ pc = "v_start"
    /\ a \in VecsOver(BinaryComponents)
    /\ s \in ScalarValues
    /\ b = <<>> /\ c = <<>> /\ res = <<>> /\ res2 = <<>>
    /\ vop = "none" /\ form = "none"
    /\ ImgInit /\ PixIdle

\* &a op s, a op s, s op a, s op &a
ScalarOp ==
    /\ pc = "v_start"
    /\ \E op \in Ops, f \in ScalarForms :
         /\ res' = CASE f = "ref_scalar" -> RefScalar(op, a, s)
                     [] f = "val_scalar" -> ValScalar(op, a, s)
                     [] f = "scalar_val" -> ScalarVal(op, s, a)
                     [] f = "scalar_ref" -> ScalarRef(op, s, a)
         /\ vop' = op /\ form' = f
    /\ pc' = "v_done"
    /\ UNCHANGED <<a, b, s, c, res2>>
    /\ UNCHANGED imgVars /\ UNCHANGED pixVars

NextScalar == ScalarOp

SpecScalar == InitScalar /\ [][NextScalar]_vars

(***************************************************************************)
(* add, subtract and cross against the same operation with the operands    *)
(* exchanged.                                                              *)
(***************************************************************************)
\* 0.0, 1.0, the largest finite value, +infinity and NaN.
AlgebraComponents == {Fin(1, 0), Fin(1, One), Fin(1, MaxFinite), Inf(1), NaN}

InitAlgebra ==
    /\ pc = "v_start"
    /\ a \in VecsOver(AlgebraComponents)
    /\ b \in VecsOver(AlgebraComponents)
    /\ s = <<>> /\ c = <<>> /\ res = <<>> /\ res2 = <<>>
    /\ vop = "none" /\ form = "none"
    /\ ImgInit /\ PixIdle

\* a + b and b + a
AddBoth ==
    /\ pc = "v_start"
    /\ res' = ValVal("add", a, b)
    /\ res2' = ValVal("add", b, a)
    /\ vop' = "add" /\ form' = "val_val"
    /\ pc' = "v_done"
    /\ UNCHANGED <<a, b, s, c>>
    /\ UNCHANGED imgVars /\ UNCHANGED pixVars

\* a - b and -(b - a)
SubBoth ==
    /\ pc = "v_start"
    /\ res' = ValVal("sub", a, b)
    /\ res2' = Neg(ValVal("sub", b, a))
    /\ vop' = "sub" /\ form' = "val_val"
    /\ pc' = "v_done"
    /\ UNCHANGED <<a, b, s, c>>
    /\ UNCHANGED imgVars /\ UNCHANGED pixVars

\* Vec3::cross(&a, &b) and -Vec3::cross(&b, &a)
CrossBoth ==
    /\ pc = "v_start"
    /\ res' = Cross(a, b)
    /\ res2' = Neg(Cross(b, a))
    /\ vop' = "cross" /\ form' = "ref_ref"
    /\ pc' = "v_done"
    /\ UNCHANGED <<a, b, s, c>>
    /\ UNCHANGED imgVars /\ UNCHANGED pixVars

NextAlgebra == AddBoth \/ SubBoth \/ CrossBoth

SpecAlgebra == InitAlgebra /\ [][NextAlgebra]_vars

(***************************************************************************)
(* Properties.                                                             *)
(***************************************************************************)
\* The image is constructed (and, in main, not yet lost to an I/O error).
Constructed == pc \in {"built", "encoded", "written", "exit_ok"}

\* The positions of the newlines of a text, and its lines.
Newlines(t) == {i \in 1..Len(t) : t[i] = "\n"}
NthNewline(t, n) == CHOOSE i \in Newlines(t) : Cardinality({j \in Newlines(t) : j < i}) = n - 1
LineOf(t, n) ==
    SubSeq(t, IF n = 1 THEN 1 ELSE NthNewline(t, n - 1) + 1, NthNewline(t, n) - 1)

\* C1: the encoding of an image with stored width w and height h is the lines
\* P3, "<w> <h>", 255 and then exactly w*h pixel lines, the k-th (from 0) that
\* of the pixel at row k div w, column k mod w, every line ended by a newline
\* and nothing after the last.
EncodingLayout ==
    out # <<>> =>
        LET w == img.width
            h == img.height
        IN /\ out[Len(out)] = "\n"
           /\ Cardinality(Newlines(out)) = 3 + w * h
           /\ LineOf(out, 1) = <<"P", "3">>
           /\ LineOf(out, 2) = Decimal(w) \o <<" ">> \o Decimal(h)
           /\ LineOf(out, 3) = <<"2", "5", "5">>
           /\ \A k \in 0..(w * h - 1) :
                LineOf(out, 4 + k) = PixelText(img.pixels[(k \div w) + 1][(k % w) + 1])

\* An image of two rows of three pixels each has been encoded.
EncodingLayoutWitness ==
    /\ pc = "encoded"
    /\ img.height = 2 /\ img.width = 3
    /\ Cardinality(Newlines(out)) = 9
    /\ LineOf(out, 2) = <<"3", " ", "2">>

\* The calls of the initializer for rows x cols cells, in row-major order.
RowMajor(rows, cols) ==
    [k \in 1..(rows * cols) |-> <<(k - 1) \div cols, (k - 1) % cols>>]

\* C2: new_assign invokes the initializer in row-major order, row index
\* first, never outside the grid and exactly once per cell, and the pixel
\* stored at row r, column c is init(r, c).
InitCallOrder ==
    entry \in {"to_draw", "test", "main"} /\ pc # "exit_err" =>
        LET expected == RowMajor(height, width) IN
        /\ Len(calls) <= Len(expected)
        /\ calls = SubSeq(expected, 1, Len(calls))
        /\ Constructed =>
             /\ calls = expected
             /\ Len(img.pixels) = height
             /\ \A r \in 0..(height - 1) :
                  /\ Len(img.pixels[r + 1]) = width
                  /\ \A cl \in 0..(width - 1) :
                       img.pixels[r + 1][cl + 1] = PixInit(pix_init, r, cl, arg1, arg2)

\* new_assign(2, 3, init) has made its six calls and stored what they returned.
InitCallOrderWitness ==
    /\ entry = "test" /\ pc = "built"
    /\ height = 2 /\ width = 3
    /\ calls = <<<<0, 0>>, <<0, 1>>, <<0, 2>>, <<1, 0>>, <<1, 1>>, <<1, 2>>>>
    /\ img.pixels[2][3] = Pixel(1, 2, 1)

\* C3: with the arguments passed as (width, height), the image has `height`
\* rows of `width` entries each and its stored width and height are the
\* arguments of the same name; Image::new stores only zero pixels and calls
\* no initializer.
DimsAsPassed ==
    Constructed /\ entry \in {"new", "to_draw"} =>
        /\ img.width = arg1
        /\ img.height = arg2
        /\ Len(img.pixels) = arg2
        /\ \A r \in 1..Len(img.pixels) : Len(img.pixels[r]) = arg1
        /\ entry = "new" =>
             /\ calls = <<>>
             /\ \A r \in 1..Len(img.pixels) :
                  \A cl \in 1..Len(img.pixels[r]) : img.pixels[r][cl] = PixelDefault

\* round(259.999 * idx / (dim - 1))
RoundedRamp(idx, dim) ==
    (2 * FactorMilli * idx + 1000 * (dim - 1)) \div (2 * 1000 * (dim - 1))

\* 259.999 * idx / (dim - 1) without its fraction, and at most 255
TruncatedRamp(idx, dim) ==
    LET t == (FactorMilli * idx) \div (1000 * (dim - 1)) IN
    IF t > 255 THEN 255 ELSE t

\* The image of to_draw(W, H) with W, H >= 2 is there.
GradientDrawn ==
    /\ Constructed
    /\ pix_init = "gradient"
    /\ arg1 >= 2 /\ arg2 >= 2

\* C7 as claimed: red is round(259.999 * i/(W-1)), green round(259.999 *
\* j/(H-1)), blue 0, every channel in 0..255, red 0 in the first and 255 in
\* the last row, green 0 in the first and 255 in the last column.
GradientRounds ==
    GradientDrawn =>
        \A i \in 0..(arg1 - 1), j \in 0..(arg2 - 1) :
            LET p == img.pixels[i + 1][j + 1] IN
            /\ p.r = RoundedRamp(i, arg1)
            /\ p.g = RoundedRamp(j, arg2)
            /\ p.b = 0
            /\ p.r \in 0..255 /\ p.g \in 0..255
            /\ (i = 0 => p.r = 0) /\ (i = arg1 - 1 => p.r = 255)
            /\ (j = 0 => p.g = 0) /\ (j = arg2 - 1 => p.g = 255)

\* C7, amended: red is 259.999 * i/(W-1) with its fraction dropped and cut
\* off at 255, green likewise from j and H, blue 0; every channel is in
\* 0..255, red is 0 in the first and 255 in the last row, green 0 in the first
\* and 255 in the last column.
GradientTruncates ==
    GradientDrawn =>
        \A i \in 0..(arg1 - 1), j \in 0..(arg2 - 1) :
            LET p == img.pixels[i + 1][j + 1] IN
            /\ p.r = TruncatedRamp(i, arg1)
            /\ p.g = TruncatedRamp(j, arg2)
            /\ p.b = 0
            /\ p.r \in 0..255 /\ p.g \in 0..255
            /\ (i = 0 => p.r = 0) /\ (i = arg1 - 1 => p.r = 255)
            /\ (j = 0 => p.g = 0) /\ (j = arg2 - 1 => p.g = 255)

\* to_draw(3, 2): the middle row is 129 (129.9995 without its fraction, not
\* 130) and the last row 255 (not 260).
GradientTruncatesWitness ==
    /\ GradientDrawn
    /\ entry = "to_draw" /\ arg1 = 3 /\ arg2 = 2
    /\ img.pixels[2][1].r = 129
    /\ img.pixels[3][2] = Pixel(255, 255, 0)

MainOrder == <<"create", "build", "write", "flush">>

DigitValue(ch) == CHOOSE d \in 0..9 : DigitChars[d + 1] = ch
RECURSIVE DigitsValue(_)
DigitsValue(t) ==
    IF t = <<>> THEN 0
    ELSE 10 * DigitsValue(SubSeq(t, 1, Len(t) - 1)) + DigitValue(t[Len(t)])

IsDigit(ch) == \E d \in 0..9 : DigitChars[d + 1] = ch

\* fld is the decimal number v right-aligned in three characters.
RightAligned(fld, v) ==
    /\ Len(fld) = 3
    /\ \E pad \in 0..2 :
         /\ \A i \in 1..pad : fld[i] = " "
         /\ \A i \in (pad + 1)..3 : IsDigit(fld[i])
         /\ (pad < 2 => fld[pad + 1] # "0")
         /\ DigitsValue(SubSeq(fld, pad + 1, 3)) = v

\* C9: the text of a pixel is its r, g and b, each a decimal number
\* right-aligned in exactly three characters, joined by single spaces: eleven
\* characters in all; (42,0,0) prints as " 42   0   0".
PixelTextLayout ==
    pc = "px_done" =>
        /\ Len(text) = 11
        /\ RightAligned(SubSeq(text, 1, 3), px.r)
        /\ text[4] = " "
        /\ RightAligned(SubSeq(text, 5, 7), px.g)
        /\ text[8] = " "
        /\ RightAligned(SubSeq(text, 9, 11), px.b)
        /\ px = Pixel(42, 0, 0) =>
             text = <<" ", "4", "2", " ", " ", " ", "0", " ", " ", " ", "0">>

\* The pixel (42, 0, 0) of test_pixel_print has been formatted.
PixelTextLayoutWitness ==
    /\ pc = "px_done"
    /\ px = Pixel(42, 0, 0)
    /\ text = <<" ", "4", "2", " ", " ", " ", "0", " ", " ", " ", "0">>

\* C10: in to_draw(width, height) with width = 0 or height = 0 the
\* initializer is never invoked, width - 1 and height - 1 are never
\* evaluated, the image holds no pixel and its encoding is the three header
\* lines alone.
ZeroSizeNeverInits ==
    entry = "to_draw" /\ (arg1 = 0 \/ arg2 = 0) =>
        /\ calls = <<>>
        /\ ~underflow
        /\ pc # "panicked"
        /\ Constructed => \A r \in 1..Len(img.pixels) : img.pixels[r] = <<>>
        /\ pc = "encoded" =>
             /\ out = Writeln(<<"P", "3">>) \o Writeln(DimsLine(img))
                        \o Writeln(<<"2", "5", "5">>)
             /\ Cardinality(Newlines(out)) = 3

\* to_draw(2, 0): two rows were collected, both empty, and the encoding is
\* the header.
ZeroSizeNeverInitsWitness ==
    /\ entry = "to_draw" /\ arg1 = 2 /\ arg2 = 0
    /\ pc = "encoded"
    /\ img.pixels = <<<<>>, <<>>>>
    /\ Cardinality(Newlines(out)) = 3

\* The component-wise result (l.x op r.x, l.y op r.y, l.z op r.z).
Componentwise(op, l, r) ==
    [x |-> FOp(op, l.x, r.x), y |-> FOp(op, l.y, r.y), z |-> FOp(op, l.z, r.z)]

\* Two f32 values are the same number: both NaN, or equal under ==.
SameNumber(x, y) == (IsNaN(x) /\ IsNaN(y)) \/ FEq(x, y)

SameVector(l, r) ==
    SameNumber(l.x, r.x) /\ SameNumber(l.y, r.y) /\ SameNumber(l.z, r.z)

\* C4: v op s is (v.x op s, v.y op s, v.z op s) and s op v is
\* (s op v.x, s op v.y, s op v.z): the scalar acts as splat(s) on its own
\* side of the operator.
ScalarOnItsSide ==
    pc = "v_done" /\ form \in ScalarForms =>
        LET splat == [x |-> s, y |-> s, z |-> s] IN
        IF form \in {"ref_scalar", "val_scalar"}
        THEN SameVector(res, Componentwise(vop, a, splat))
        ELSE SameVector(res, Componentwise(vop, splat, a))

\* The results of C5, in the state after the operation.
FormsGiveComponentwise ==
    /\ pc = "v_done" /\ form \in BinaryForms =>
         res = Componentwise(vop, a, b) /\ c = a
    /\ pc = "v_done" /\ form \in AssignForms =>
         c = Componentwise(vop, a, b)

\* C5: the four operand forms of a op b all give the component-wise result
\* and leave a and b as they were; c op= b and c op= &b leave in c the
\* component-wise result of (old c) op b, and b as it was.
FormsAgree == []FormsGiveComponentwise /\ [][a' = a /\ b' = b]_vars

\* c /= b has been performed on c = (1, 1, 1) and b = (-4, 1, -4).
FormsAgreeWitness ==
    /\ pc = "v_done" /\ vop = "div" /\ form = "assign_val"
    /\ a = Vec3(Fin(1, One), Fin(1, One), Fin(1, One))
    /\ b = Vec3(Fin(-1, MaxFinite), Fin(1, One), Fin(-1, MaxFinite))
    /\ c.y = Fin(1, One) /\ c.x = c.z /\ c.x.sg = -1 /\ c # a

IsFinite(x) == x.k = "fin"
AllFinite(v) == IsFinite(v.x) /\ IsFinite(v.y) /\ IsFinite(v.z)

\* C6 as claimed, on the vectors of finite components alone: a + b == b + a,
\* a - b == -(b - a) and cross(a, b) == -cross(b, a).
ExchangeLawsAlways ==
    /\ pc = "v_done" /\ vop \in {"add", "sub", "cross"}
    /\ AllFinite(a) /\ AllFinite(b)
    => VecEq(res, res2)

E1 == Vec3(Fin(1, One), Fin(1, 0), Fin(1, 0))
E2 == Vec3(Fin(1, 0), Fin(1, One), Fin(1, 0))
E3 == Vec3(Fin(1, 0), Fin(1, 0), Fin(1, One))

\* C6, amended: a + b == b + a, a - b == -(b - a) and cross(a, b) ==
\* -cross(b, a) hold exactly when the result has no NaN component (a NaN
\* makes == false); cross is the right-handed product and
\* cross((1,0,0), (0,1,0)) == (0,0,1).
ExchangeLawsUnlessNaN ==
    pc = "v_done" /\ vop \in {"add", "sub", "cross"} =>
        /\ VecEq(res, res2) <=> ~HasNaN(res)
        /\ vop = "cross" =>
             /\ res.x = FSub(FMul(a.y, b.z), FMul(a.z, b.y))
             /\ res.y = FSub(FMul(a.z, b.x), FMul(a.x, b.z))
             /\ res.z = FSub(FMul(a.x, b.y), FMul(a.y, b.x))
             /\ (a = E1 /\ b = E2 => VecEq(res, E3))

\* cross((1,0,0), (0,1,0)) has been computed.
ExchangeLawsWitness ==
    /\ pc = "v_done" /\ vop = "cross"
    /\ a = E1 /\ b = E2
    /\ VecEq(res, E3) /\ VecEq(res2, E3)

====
